---- MODULE Spec2Model ----
(***************************************************************************)
(* Partner dashboard (frontend/src/App.js and its components): the App's   *)
(* list state (filters, sort, page), the partner-list fetches in flight,   *)
(* the initial module loads behind the splash screen, and the navigation   *)
(* snapshot carried to the partner detail route and back.                  *)
(*                                                                         *)
(* A step of the model is one event-loop task together with the renders    *)
(* and effects React runs before the next task: an event handler, the      *)
(* continuation of an awaited request, or a timer callback.                *)
(***************************************************************************)
EXTENDS Integers, Sequences, FiniteSets, Bags, TLC

\* ---------------------------------------------------------------- bounds
MaxInFlight == 2      \* partner-list requests a user operation may leave in flight
MaxPage == 4          \* highest page number a page change may ask for
MaxTimers == 1        \* scroll-restore timeouts scheduled and not yet fired
MaxObjects == 5       \* filter objects allocated
MaxRequests == 3      \* actions requested while PII access is not granted
MaxProgression == 2   \* tier-progression requests of the enablement panel in flight
MaxOverviewRequests == 2 \* requests of the overview's enablement section in flight

\* ------------------------------------------------------------- constants
partnersPerPage == 30

None == "none"                 \* null
Undefined == 0 - 1             \* an absent scroll offset
NoPartners == [rows |-> 0]     \* the empty partner list []
NoState == [scrollPosition |-> Undefined]   \* a location without state
Data == "data"                 \* a response payload whose content is not modelled

ErrOverview == "Failed to load partner overview"
ErrPartners == "Failed to load partners"
ErrTier == "Failed to load tier analytics"

FilterKeys == {"country"}
FilterValue(key) == IF key = "country" THEN "Brazil" ELSE "Gold"
SortFields == {"total_earnings"}   \* the column headers the model clicks
ScrollOffsets == {0, 450}

EmptyFilters == [k \in {} |-> ""]

Min(a, b) == IF a < b THEN a ELSE b

RECURSIVE BagOfSeq(_)
BagOfSeq(s) == IF s = <<>> THEN EmptyBag ELSE SetToBag({Head(s)}) (+) BagOfSeq(Tail(s))

VARIABLES
  \* App state (useState)
  partners, totalCount, hasMore,
  activeFilters, currentPage, sortField, sortDirection,
  loading, error,
  overview, tierAnalytics, performanceAnalyticsData, tierAnalyticsData,
  overviewLoading, funnelLoading, partnerMgmtLoading, funnelInitialLoading,
  performanceAnalyticsLoading, tierAnalyticsLoading,
  \* PartnerFilters state
  localFilters,
  \* router and browser
  location,          \* the router's location: [path, state], the state kept while it can be read
  histState,         \* the state of the browser's current history entry
  scrollY,           \* window.pageYOffset
  pendingScroll,     \* window._pendingScrollPosition
  scrollTimers,      \* setTimeout(..., 100) callbacks of the loading effect not yet run
  \* requests
  inflight,          \* the bag of partner-list requests awaiting their response
  initPending,       \* the initial loads (and the 1200 ms timer) not yet settled
  \* PartnerDetailPage
  detail,            \* what the detail page shows, and the response that led there
  \* history variables
  snapshotLife,      \* what has happened to the snapshot captured last
  restored,          \* the snapshot of the last restore, while no user input followed it
  \* the filter sets as objects
  filterObjects,     \* the filter objects allocated so far, by identity
  filterRefs,        \* which object each holder references, and the snapshot as captured
  \* the ratio functions
  ratioCall,         \* the arguments of a ratio function and, once called, its result
  \* the tier shares
  shareCall,         \* the tier totals handed to calculatePercentages, and its result
  \* the number formatter
  formatCall,        \* the argument of formatNumber, in tenths, and its result
  \* PII access
  pii,               \* showPII, showPasswordModal, passwordError, pendingAction, the route
  piiLog,            \* history: what became of each requested action, and how often it ran
  \* PartnerEnablement
  enablement,        \* the panel's props and state
  progressionInflight, \* the bag of tier-progression requests awaiting their response
  \* PartnerOverview, global partner enablement
  globalEnablement,  \* the section's props and state
  overviewRequests,  \* the bag of its requests awaiting their response
  backend            \* the tier movements the backend holds, and the shape of its answers

appVars == <<partners, totalCount, hasMore, activeFilters, currentPage, sortField,
             sortDirection, loading, error>>
panelData == <<overview, tierAnalytics, performanceAnalyticsData, tierAnalyticsData>>
panelFlags == <<overviewLoading, funnelLoading, partnerMgmtLoading, funnelInitialLoading,
                performanceAnalyticsLoading, tierAnalyticsLoading>>
browserVars == <<location, histState, scrollY, pendingScroll, scrollTimers>>
unitVars == <<filterObjects, filterRefs, ratioCall, shareCall, formatCall,
             pii, piiLog, enablement, progressionInflight,
             globalEnablement, overviewRequests, backend>>

\* A step of the unit named leaves the other units alone.
OtherUnitsUnchanged(unit) ==
  /\ IF unit = "objects" THEN TRUE ELSE UNCHANGED <<filterObjects, filterRefs>>
  /\ IF unit = "ratio" THEN TRUE ELSE UNCHANGED ratioCall
  /\ IF unit = "share" THEN TRUE ELSE UNCHANGED shareCall
  /\ IF unit = "format" THEN TRUE ELSE UNCHANGED formatCall
  /\ IF unit = "pii" THEN TRUE ELSE UNCHANGED <<pii, piiLog>>
  /\ IF unit = "enablement" THEN TRUE ELSE UNCHANGED <<enablement, progressionInflight>>
  /\ IF unit = "overview" THEN TRUE ELSE UNCHANGED <<globalEnablement, overviewRequests, backend>>
mainVars == <<appVars, panelData, panelFlags, localFilters, browserVars, inflight,
              initPending, detail, snapshotLife, restored>>
vars == <<mainVars, unitVars>>

\* ------------------------------------------------------------ the backend
\* GET /api/partners: the result set of a filter set has a fixed size.
TotalCountOf(filterParams) ==
  CASE Cardinality(DOMAIN filterParams) = 0 -> 2 * partnersPerPage + 10
    [] Cardinality(DOMAIN filterParams) = 1 -> partnersPerPage + 5
    [] OTHER -> 5

RowsOf(total, offset) == IF offset >= total THEN 0 ELSE Min(partnersPerPage, total - offset)

\* The response to a request: the page of rows it asked for, named by its parameters.
ResponseOf(req) ==
  LET total == TotalCountOf(req.filters) IN
  [partners |-> [filters |-> req.filters, sort_by |-> req.sort_by,
                 sort_order |-> req.sort_order, offset |-> req.offset,
                 rows |-> RowsOf(total, req.offset)],
   total_count |-> total,
   has_more |-> req.offset + req.limit < total]

\* ------------------------------------------------------------ fetchPartners
\* A request that leaves the filter parameters out.
RequestWithoutFilters(filterParams, page, sf, sd, restore) ==
  [filters |-> EmptyFilters, sort_by |-> sf, sort_order |-> sd,
   limit |-> partnersPerPage, offset |-> (page - 1) * partnersPerPage,
   restore |-> restore]

\* The request of fetchPartners(filterParams, page) called from a render whose sort
\* is (sf, sd); restore marks the call of the restore effect.
Request(filterParams, page, sf, sd, restore) ==
  [filters |-> filterParams, sort_by |-> sf, sort_order |-> sd,
   limit |-> partnersPerPage, offset |-> (page - 1) * partnersPerPage,
   restore |-> restore]

\* ------------------------------------------------------------ rendering
modulesLoaded ==
  Cardinality({i \in 1..6 : ~(<<overviewLoading, funnelLoading, partnerMgmtLoading,
                                funnelInitialLoading, performanceAnalyticsLoading,
                                tierAnalyticsLoading>>[i])})
\* A gate that opens as soon as one module has loaded.
anyLoaded == modulesLoaded >= 1

allLoaded == modulesLoaded = 6

SplashShown == ~allLoaded
ErrorScreenShown == allLoaded /\ error # None
AppRendered == allLoaded /\ error = None
DashboardMounted == AppRendered /\ location.path = "list"

PartnerRows == partners.rows
TableShown == DashboardMounted /\ ~loading /\ PartnerRows > 0

totalPages == (totalCount + partnersPerPage - 1) \div partnersPerPage
PaginationShown == TableShown /\ totalCount > 0 /\ totalPages > 1

\* PartnerDetailPage's views. The page is mounted while the App renders the detail
\* route; a fresh mount starts with loading = true and requests the partner.
Unmounted == [view |-> "unmounted", response |-> None]
DetailLoading == [view |-> "loading", response |-> None]
DetailAfter(renderedAfter, pathAfter) ==
  IF ~(renderedAfter /\ pathAfter = "detail") THEN Unmounted
  ELSE IF AppRendered /\ location.path = "detail" THEN detail
  ELSE DetailLoading

\* ------------------------------------------------------------ effects
\* The values a render hands to its effects, and what the effects make of them:
\* reqs are the partner-list requests the effects issue, restores the snapshots applied.
RenderState(af, cp, sf, sd, ps, hs) ==
  [activeFilters |-> af, currentPage |-> cp, sortField |-> sf, sortDirection |-> sd,
   pendingScroll |-> ps, histState |-> hs, reqs |-> <<>>, restores |-> 0]

\* Effect dependencies that leave the direction out.
SortFieldOf(s) == <<s.sortField>>

\* The dependencies of the sort effect: [sortField, sortDirection].
SortOf(s) == <<s.sortField, s.sortDirection>>

\* A restore that leaves the history entry's state in place.
KeepHistoryState(st) == st

\* window.history.replaceState({}, document.title, location.pathname)
ReplaceState(st) == NoState

\* location.state?.scrollPosition !== undefined
HasSnapshot(st) == st.scrollPosition # Undefined

\* The request of the restore effect, issued from the render that saw the new location.
RestoreRequest(st, s) ==
  Request(st.savedFilters, st.savedPage, s.sortField, s.sortDirection, TRUE)

\* useEffect(..., [location]): restore the list state a navigation carries.
LocationEffect(loc, s) ==
  IF loc.path = "list" /\ HasSnapshot(loc.state)
  THEN LET st == loc.state IN
       [s EXCEPT !.activeFilters = st.savedFilters,
                 !.currentPage = st.savedPage,
                 !.sortField = st.savedSortField,
                 !.sortDirection = st.savedSortDirection,
                 !.reqs = Append(@, RestoreRequest(st, s)),
                 !.pendingScroll = st.scrollPosition,
                 !.histState = ReplaceState(st),
                 !.restores = @ + 1]
  ELSE s

\* A sort effect that keeps the page of its render.
SortEffectKeepsPage(s) == s.currentPage

\* A sort effect that fetches without the filters.
SortEffectClearsFilters(s) ==
  [s EXCEPT !.currentPage = 1,
            !.activeFilters = EmptyFilters,
            !.reqs = Append(@, Request(EmptyFilters, 1, s.sortField, s.sortDirection,
                                       FALSE))]

\* useEffect(..., [sortField, sortDirection]) run by a render with state s.
SortEffectPage(s) == 1
SortEffect(s) ==
  [s EXCEPT !.currentPage = SortEffectPage(s),
            !.reqs = Append(@, Request(s.activeFilters, SortEffectPage(s), s.sortField,
                                       s.sortDirection, FALSE))]

\* The effects after a navigation to loc, from the render state s0: the location
\* effect, then, in the render its state updates cause, the sort effect if the sort
\* changed.
AfterNavigation(loc, s0) ==
  LET s1 == LocationEffect(loc, s0) IN
  IF SortOf(s1) # SortOf(s0) THEN SortEffect(s1) ELSE s1

\* The location after its effect has run. On the list route only that effect reads
\* location.state, and it runs once per location, so the state is dropped there.
Arrived(loc) == IF loc.path = "list" THEN [loc EXCEPT !.state = NoState] ELSE loc

\* The life of a navigation snapshot: captured by handlePartnerSelect, applied by the
\* restore that follows, discarded once the list is entered again without a restore;
\* reapplied if a second restore applies it.
LifeAfterEntry(loc, life, restores) ==
  IF loc.path # "list" THEN life
  ELSE IF restores > 0 THEN (IF life = "captured" THEN "applied" ELSE "reapplied")
  ELSE IF life = "applied" THEN "discarded"
  ELSE life

\* The state of a freshly constructed App.
InitialRender(hs) == RenderState(EmptyFilters, 1, "total_earnings", "desc", Undefined, hs)

\* The effects of the first render, in their order in the source: the mount effect,
\* the location effect, the loading effect (loading is true: nothing) and the sort
\* effect, all closed over the first render's state; then the sort effect again if
\* a restore changed the sort.
AfterMount(loc, hs) ==
  LET d == InitialRender(hs)
      m1 == [d EXCEPT !.reqs = <<Request(d.activeFilters, 1, d.sortField,
                                         d.sortDirection, FALSE)>>]
      m2 == LocationEffect(loc, m1)
      m3 == [m2 EXCEPT !.currentPage = 1,
                       !.reqs = Append(@, Request(d.activeFilters, 1, d.sortField,
                                                  d.sortDirection, FALSE))]
  IN IF SortOf(m3) # SortOf(d) THEN SortEffect(m3) ELSE m3

\* The loads of the mount effect that a module flag waits for. fetchFilters, whose
\* option lists are not modelled and which no flag waits for, is left out.
InitialLoads == {"overview", "tier", "funnel", "countries", "mgmtTimer"}

\* What construction and the first effects leave, for a page loaded at loc whose
\* history entry holds hs, scrolled to y.
Mounted(loc, hs, y, life) ==
  LET m == AfterMount(loc, hs) IN
  /\ partners = NoPartners /\ totalCount = 0 /\ hasMore = FALSE
  /\ activeFilters = m.activeFilters /\ currentPage = m.currentPage
  /\ sortField = m.sortField /\ sortDirection = m.sortDirection
  /\ loading = TRUE /\ error = None
  /\ overview = None /\ tierAnalytics = None /\ performanceAnalyticsData = None
  /\ tierAnalyticsData = None
  /\ overviewLoading = TRUE /\ funnelLoading = TRUE /\ partnerMgmtLoading = TRUE
  /\ funnelInitialLoading = TRUE /\ performanceAnalyticsLoading = TRUE
  /\ tierAnalyticsLoading = TRUE
  /\ localFilters = EmptyFilters
  /\ location = Arrived(loc) /\ histState = m.histState
  /\ scrollY = y /\ pendingScroll = m.pendingScroll /\ scrollTimers = 0
  /\ inflight = BagOfSeq(m.reqs) /\ initPending = InitialLoads
  /\ snapshotLife = LifeAfterEntry(loc, life, m.restores)
  /\ restored = IF m.restores > 0 THEN loc.state ELSE NoState
  /\ detail = Unmounted

\* useState({}) of App, which PartnerFilters' useState(activeFilters) references too.
InitialObjects == <<EmptyFilters>>
InitialRefs ==
  [localFilters |-> 1, activeFilters |-> 1, savedFilters |-> 0,
   captured |-> EmptyFilters, path |-> "list"]

\* No ratio function has been called.
NotCalled(earnings, revenue) ==
  [fn |-> "none", earnings |-> earnings, revenue |-> revenue, result |-> ""]

\* The tier totals before calculatePercentages is called on them.
ShareTiers == {"platinum", "gold", "silver", "bronze"}
NoShares(data) == [data |-> data, called |-> FALSE, total |-> 0,
                   percentages |-> [tier \in ShareTiers |-> <<0, 1>>]]

\* formatNumber has not been called on num.
NotFormatted(num) == [num |-> num, fn |-> "none", result |-> ""]

\* useState of showPII, showPasswordModal, passwordError and pendingAction; no action
\* has been requested.
InitialPII ==
  [showPII |-> FALSE, showPasswordModal |-> FALSE, passwordError |-> FALSE,
   pendingAction |-> 0, path |-> "list"]
NothingRequested ==
  [fate |-> [r \in 1..MaxRequests |-> "none"], runs |-> [r \in 1..MaxRequests |-> 0]]

\* null, for tierProgressionData and currentDataSelection; a value v held there is <<v>>.
NoProgression == <<>>

\* PartnerEnablement's props and useState values: no country, no data, all tiers.
InitialEnablement ==
  [selectedCountry |-> "", appliedFromTier |-> "All Tiers", appliedToTier |-> "All Tiers",
   tierProgressionData |-> NoProgression, currentDataSelection |-> NoProgression,
   error |-> None,
   loading |-> FALSE, isApplyingFilter |-> FALSE]

\* PartnerOverview's props and useState values while the global data is preloaded.
InitialOverview ==
  [globalTierProgressionData |-> NoProgression, globalProgressionLoading |-> TRUE,
   globalProgressionError |-> None, filteredGlobalData |-> NoProgression,
   tierFilterLoading |-> FALSE, showCountryModal |-> FALSE,
   selectedCountryData |-> NoProgression,
   appliedFromTier |-> "All Tiers", appliedToTier |-> "All Tiers",
   isApplyingFilter |-> FALSE]

\* The units other than the one named are where their construction leaves them.
OtherUnitsIdle(unit) ==
  /\ IF unit = "objects" THEN TRUE
     ELSE filterObjects = InitialObjects /\ filterRefs = InitialRefs
  /\ IF unit = "ratio" THEN TRUE ELSE ratioCall = NotCalled(0, 0)
  /\ IF unit = "share" THEN TRUE ELSE shareCall = NoShares([tier \in ShareTiers |-> 0])
  /\ IF unit = "format" THEN TRUE ELSE formatCall = NotFormatted(0)
  /\ IF unit = "pii" THEN TRUE ELSE pii = InitialPII /\ piiLog = NothingRequested
  /\ IF unit = "enablement" THEN TRUE
     ELSE enablement = InitialEnablement /\ progressionInflight = EmptyBag
  /\ IF unit = "overview" THEN TRUE
     ELSE globalEnablement = InitialOverview /\ overviewRequests = EmptyBag /\ backend = <<>>

UnitInit == OtherUnitsIdle("none")

Init == Mounted([path |-> "list", state |-> NoState], NoState, 0, "none") /\ UnitInit

\* ------------------------------------------------------------ helpers of the actions
\* PartnerFilters keeps its own copy of the filters, initialised from activeFilters
\* when the Dashboard mounts (useState(activeFilters)) and lost when it unmounts.
\* afAtMount is activeFilters in the render that mounts it.
LocalFiltersAfter(mountedAfter, afAtMount) ==
  IF ~mountedAfter THEN EmptyFilters
  ELSE IF DashboardMounted THEN localFilters
  ELSE afAtMount

InFlight == BagCardinality(inflight)
CanIssue(n) == InFlight + n <= MaxInFlight

\* fetchPartners up to its await: setLoading(true) and the request.
IssuePartners(reqs) ==
  /\ inflight' = inflight (+) BagOfSeq(reqs)
  /\ loading' = TRUE

\* ------------------------------------------------------------ the initial loads
\* fetchOverview's continuation.
OverviewSettles(ok) ==
  /\ "overview" \in initPending
  /\ initPending' = initPending \ {"overview"}
  /\ overview' = IF ok THEN Data ELSE overview
  /\ error' = IF ok THEN error ELSE ErrOverview
  /\ overviewLoading' = FALSE
  /\ UNCHANGED <<partners, totalCount, hasMore, activeFilters, currentPage, sortField,
                 sortDirection, loading, tierAnalytics, performanceAnalyticsData,
                 tierAnalyticsData, funnelLoading, partnerMgmtLoading,
                 funnelInitialLoading, performanceAnalyticsLoading, tierAnalyticsLoading,
                 browserVars, inflight, snapshotLife, restored>>
  /\ localFilters' = LocalFiltersAfter(DashboardMounted', activeFilters)
  /\ detail' = DetailAfter(AppRendered', location'.path)
  /\ UNCHANGED unitVars

\* A catch block that leaves the two flags set.
TierCatchFlagLeftSet == TRUE

\* The flags fetchTierAnalytics' catch block leaves.
TierCatchFlag == FALSE

\* fetchTierAnalytics' continuation.
TierAnalyticsSettles(ok) ==
  /\ "tier" \in initPending
  /\ initPending' = initPending \ {"tier"}
  /\ performanceAnalyticsData' = IF ok THEN Data ELSE performanceAnalyticsData
  /\ tierAnalyticsData' = IF ok THEN Data ELSE tierAnalyticsData
  /\ tierAnalytics' = IF ok THEN Data ELSE tierAnalytics
  /\ error' = IF ok THEN error ELSE ErrTier
  /\ performanceAnalyticsLoading' = IF ok THEN FALSE ELSE TierCatchFlag
  /\ tierAnalyticsLoading' = IF ok THEN FALSE ELSE TierCatchFlag
  /\ funnelLoading' = FALSE
  /\ UNCHANGED <<partners, totalCount, hasMore, activeFilters, currentPage, sortField,
                 sortDirection, loading, overview, overviewLoading,
                 partnerMgmtLoading, funnelInitialLoading,
                 browserVars, inflight, snapshotLife, restored>>
  /\ localFilters' = LocalFiltersAfter(DashboardMounted', activeFilters)
  /\ detail' = DetailAfter(AppRendered', location'.path)
  /\ UNCHANGED unitVars

\* Promise.all([fetchInitialFunnelData(), fetchAvailableCountriesAndRegions()])
\*   .then(() => setFunnelInitialLoading(false)): both helpers catch their own
\* errors, so the promise resolves once both have ended.
FunnelPromiseParts == {"funnel", "countries", "regions"}
FunnelInitialFlag(pendingAfter) ==
  IF pendingAfter \cap FunnelPromiseParts = {} THEN FALSE ELSE funnelInitialLoading

\* A catch block that reports the failure in the error slot.
FunnelCatchSetsError(err) == "Failed to load funnel data"

\* What fetchInitialFunnelData's catch block makes of the error slot.
FunnelCatch(err) == err

\* fetchInitialFunnelData's continuation (the funnel payload is not modelled).
FunnelSettles(ok) ==
  /\ "funnel" \in initPending
  /\ initPending' = initPending \ {"funnel"}
  /\ error' = IF ok THEN error ELSE FunnelCatch(error)
  /\ funnelInitialLoading' = FunnelInitialFlag(initPending')
  /\ UNCHANGED <<partners, totalCount, hasMore, activeFilters, currentPage, sortField,
                 sortDirection, loading, overview, tierAnalytics,
                 performanceAnalyticsData, tierAnalyticsData, overviewLoading,
                 funnelLoading, partnerMgmtLoading, performanceAnalyticsLoading,
                 tierAnalyticsLoading, browserVars, inflight, snapshotLife, restored>>
  /\ localFilters' = LocalFiltersAfter(DashboardMounted', activeFilters)
  /\ detail' = DetailAfter(AppRendered', location'.path)
  /\ UNCHANGED unitVars

\* fetchAvailableCountriesAndRegions: the countries request, then on success the
\* regions request; a failure of either ends it (the lists themselves are not modelled).
CountriesSettles(ok) ==
  /\ \E part \in {"countries", "regions"} :
       /\ part \in initPending
       /\ initPending' = IF ok /\ part = "countries"
                         THEN (initPending \ {"countries"}) \cup {"regions"}
                         ELSE initPending \ {part}
  /\ funnelInitialLoading' = FunnelInitialFlag(initPending')
  /\ UNCHANGED <<appVars, panelData, overviewLoading, funnelLoading, partnerMgmtLoading,
                 performanceAnalyticsLoading, tierAnalyticsLoading, browserVars,
                 inflight, snapshotLife, restored>>
  /\ localFilters' = LocalFiltersAfter(DashboardMounted', activeFilters)
  /\ detail' = DetailAfter(AppRendered', location'.path)
  /\ UNCHANGED unitVars

\* setTimeout(() => setPartnerMgmtLoading(false), 1200)
MgmtTimerFires ==
  /\ "mgmtTimer" \in initPending
  /\ initPending' = initPending \ {"mgmtTimer"}
  /\ partnerMgmtLoading' = FALSE
  /\ UNCHANGED <<appVars, panelData, overviewLoading, funnelLoading,
                 funnelInitialLoading, performanceAnalyticsLoading, tierAnalyticsLoading,
                 browserVars, inflight, snapshotLife, restored>>
  /\ localFilters' = LocalFiltersAfter(DashboardMounted', activeFilters)
  /\ detail' = DetailAfter(AppRendered', location'.path)
  /\ UNCHANGED unitVars

\* ------------------------------------------------------------ partner-list responses
\* useEffect(..., [loading]): when loading has just become false and a scroll offset is
\* pending, schedule the scroll; the number of timeouts scheduled after the render.
LoadingEffect(wasLoading, isLoading, pending, timers) ==
  IF wasLoading # isLoading /\ ~isLoading /\ pending # Undefined
  THEN timers + 1 ELSE timers

\* fetchPartners after its await: the response (ok) or the rejection of the i-th
\* request in flight, then the finally block.
PartnersSettle(req, ok) ==
  /\ BagIn(req, inflight)
  /\ LoadingEffect(loading, FALSE, pendingScroll, scrollTimers) <= MaxTimers
  /\ LET resp == ResponseOf(req) IN
     /\ partners' = IF ok THEN resp.partners ELSE partners
     /\ totalCount' = IF ok THEN resp.total_count ELSE totalCount
     /\ hasMore' = IF ok THEN resp.has_more ELSE hasMore
  /\ error' = IF ok THEN error ELSE ErrPartners
  /\ loading' = FALSE
  /\ scrollTimers' = LoadingEffect(loading, loading', pendingScroll, scrollTimers)
  /\ inflight' = inflight (-) SetToBag({req})
  /\ UNCHANGED <<activeFilters, currentPage, sortField, sortDirection, panelData,
                 panelFlags, location, histState, scrollY, pendingScroll, initPending,
                 snapshotLife, restored>>
  /\ localFilters' = LocalFiltersAfter(DashboardMounted', activeFilters)
  /\ detail' = DetailAfter(AppRendered', location'.path)
  /\ UNCHANGED unitVars

\* What the timeout leaves in window._pendingScrollPosition.
AfterScroll(pending) == Undefined

\* The timeout of the loading effect: window.scrollTo, then delete the pending offset.
ScrollTimerFires ==
  /\ scrollTimers > 0
  /\ scrollTimers' = scrollTimers - 1
  /\ scrollY' = IF pendingScroll # Undefined THEN pendingScroll ELSE scrollY
  /\ pendingScroll' = AfterScroll(pendingScroll)
  /\ UNCHANGED <<appVars, panelData, panelFlags, localFilters, location, histState,
                 inflight, initPending, snapshotLife, restored>>
  /\ UNCHANGED detail
  /\ UNCHANGED unitVars

\* ------------------------------------------------------------ the filter panel
LocalValue(key) == IF key \in DOMAIN localFilters THEN localFilters[key] ELSE ""

\* A filter edit that keeps a key whose value is empty.
ApplyFilterKeepsEmpty(current, key, value) ==
  [k \in (DOMAIN current) \cup {key} |-> IF k = key THEN value ELSE current[k]]

\* PartnerFilters.handleFilterChange: set the key, or drop it when the value is empty.
ApplyFilter(current, key, value) ==
  IF value = ""
  THEN [k \in (DOMAIN current) \ {key} |-> current[k]]
  ELSE [k \in (DOMAIN current) \cup {key} |-> IF k = key THEN value ELSE current[k]]

\* The page App.handleFilterChange sets and fetches.
FilterChangePage == 1

\* App.handleFilterChange(newFilters), as called by the filter panel.
OnFilterChange(newFilters) ==
  /\ localFilters' = newFilters
  /\ activeFilters' = newFilters
  /\ currentPage' = FilterChangePage
  /\ IssuePartners(<<Request(newFilters, FilterChangePage, sortField, sortDirection,
                             FALSE)>>)
  /\ restored' = NoState
  /\ UNCHANGED <<partners, totalCount, hasMore, sortField, sortDirection, error,
                 panelData, panelFlags, browserVars, initPending, snapshotLife>>
  /\ UNCHANGED detail
  /\ UNCHANGED unitVars

\* A filter input's onChange, or the x of an active-filter tag (value "").
FilterChange(key, value) ==
  /\ DashboardMounted
  /\ CanIssue(1)
  /\ value # LocalValue(key)
  /\ OnFilterChange(ApplyFilter(localFilters, key, value))

\* PartnerFilters.clearFilters, behind the Clear All button.
ClearFilters ==
  /\ DashboardMounted
  /\ CanIssue(1)
  /\ DOMAIN localFilters # {}
  /\ OnFilterChange(EmptyFilters)

\* ------------------------------------------------------------ sorting and paging
\* A direction rule that flips on every click, whatever the column.
AlwaysFlip(field) == IF sortDirection = "desc" THEN "asc" ELSE "desc"

\* App.handleSortChange: the direction a click on a column header sets.
NewDirection(field) ==
  IF sortField = field /\ sortDirection = "desc" THEN "asc" ELSE "desc"

\* A click on a sortable column header: handleSortChange, the render it causes and
\* that render's sort effect.
SortChange(field) ==
  /\ TableShown
  /\ CanIssue(1)
  /\ LET s0 == RenderState(activeFilters, currentPage, sortField, sortDirection,
                           pendingScroll, histState)
         s1 == [s0 EXCEPT !.sortField = field, !.sortDirection = NewDirection(field)]
         s2 == IF SortOf(s1) # SortOf(s0) THEN SortEffect(s1) ELSE s1
     IN /\ sortField' = s2.sortField
        /\ sortDirection' = s2.sortDirection
        /\ currentPage' = s2.currentPage
        /\ IF s2.reqs # <<>>
           THEN IssuePartners(s2.reqs)
           ELSE UNCHANGED <<inflight, loading>>
  /\ restored' = NoState
  /\ UNCHANGED <<partners, totalCount, hasMore, activeFilters, error, panelData,
                 panelFlags, localFilters, browserVars, initPending, snapshotLife>>
  /\ UNCHANGED detail
  /\ UNCHANGED unitVars

\* Pagination.generatePageNumbers: the numbered buttons.
generatePageNumbers ==
  IF totalPages <= 5 THEN 1..totalPages
  ELSE IF currentPage <= 3 THEN (1..4) \cup {totalPages}
  ELSE IF currentPage >= totalPages - 2 THEN {1} \cup ((totalPages - 3)..totalPages)
  ELSE {1, totalPages} \cup ((currentPage - 1)..(currentPage + 1))

\* The pages the enabled buttons of Pagination ask for: Previous, the numbers, Next.
PageButtons ==
  (IF currentPage # 1 THEN {currentPage - 1} ELSE {})
    \cup generatePageNumbers
    \cup (IF currentPage # totalPages THEN {currentPage + 1} ELSE {})

\* App.handlePageChange(newPage), from a button of Pagination.
PageChange(newPage) ==
  /\ PaginationShown
  /\ CanIssue(1)
  /\ newPage \in PageButtons
  /\ newPage <= MaxPage
  /\ currentPage' = newPage
  /\ IssuePartners(<<Request(activeFilters, newPage, sortField, sortDirection, FALSE)>>)
  /\ restored' = NoState
  /\ UNCHANGED <<partners, totalCount, hasMore, activeFilters, sortField, sortDirection,
                 error, panelData, panelFlags, localFilters, browserVars, initPending,
                 snapshotLife>>
  /\ UNCHANGED detail
  /\ UNCHANGED unitVars

\* ------------------------------------------------------------ navigation
\* App.handlePartnerSelect: the snapshot captured before navigating to the detail.
Snapshot ==
  [scrollPosition |-> scrollY, savedFilters |-> activeFilters, savedPage |-> currentPage,
   savedSortField |-> sortField, savedSortDirection |-> sortDirection]

\* View Details: navigate(`/partner/${id}`, { state: currentState }).
PartnerSelect ==
  /\ TableShown
  /\ location' = [path |-> "detail", state |-> Snapshot]
  /\ histState' = Snapshot
  /\ localFilters' = EmptyFilters
  /\ snapshotLife' = "captured"
  /\ restored' = NoState
  /\ UNCHANGED <<appVars, panelData, panelFlags, scrollY, pendingScroll, scrollTimers,
                 inflight, initPending>>
  /\ detail' = DetailAfter(AppRendered', location'.path)
  /\ UNCHANGED unitVars

\* App.navigateToPartnerDetail (and the switchToPartnerManagement event):
\* navigate(`/partner/${id}`), without state.
NavigateToPartnerDetail ==
  /\ DashboardMounted
  /\ location' = [path |-> "detail", state |-> NoState]
  /\ histState' = NoState
  /\ localFilters' = EmptyFilters
  /\ restored' = NoState
  /\ UNCHANGED <<appVars, panelData, panelFlags, scrollY, pendingScroll, scrollTimers,
                 inflight, initPending, snapshotLife>>
  /\ detail' = DetailAfter(AppRendered', location'.path)
  /\ UNCHANGED unitVars

\* App.handleBackToDashboard, behind the header's back button on the detail route:
\* navigate('/', { state: location.state }), the render of the list route (which
\* mounts the Dashboard) and the effects of AfterNavigation.
HandleBackToDashboard ==
  /\ AppRendered
  /\ location.path = "detail"
  /\ LET loc == [path |-> "list", state |-> location.state]
         s0 == RenderState(activeFilters, currentPage, sortField, sortDirection,
                           pendingScroll, loc.state)
         s == AfterNavigation(loc, s0)
     IN /\ CanIssue(Len(s.reqs))
        /\ location' = Arrived(loc)
        /\ histState' = s.histState
        /\ activeFilters' = s.activeFilters
        /\ currentPage' = s.currentPage
        /\ sortField' = s.sortField
        /\ sortDirection' = s.sortDirection
        /\ pendingScroll' = s.pendingScroll
        /\ IF s.reqs # <<>>
           THEN IssuePartners(s.reqs)
           ELSE UNCHANGED <<inflight, loading>>
        /\ snapshotLife' = LifeAfterEntry(loc, snapshotLife, s.restores)
        /\ restored' = IF s.restores > 0 THEN loc.state ELSE NoState
  /\ localFilters' = activeFilters
  /\ UNCHANGED <<partners, totalCount, hasMore, error, panelData, panelFlags, scrollY,
                 scrollTimers, initPending>>
  /\ detail' = DetailAfter(AppRendered', location'.path)
  /\ UNCHANGED unitVars

\* ------------------------------------------------------------ the detail page
\* What GET /api/partners/{id} may answer: the partner's record, an empty body, a
\* not-found rejection (404), or another failure.
DetailOutcomes == {"record", "empty", "notFound", "failure"}

\* fetchPartnerDetail's catch block: setError('Failed to load partner details').
DetailCatch(outcome) == "error"

\* PartnerDetailPage's render once loading is false: the error state, the not-found
\* state (!partner), or the partner.
DetailViewOf(outcome) ==
  IF outcome \in {"notFound", "failure"} THEN DetailCatch(outcome)
  ELSE IF outcome = "empty" THEN "notFound"
  ELSE "partner"

\* The buttons the detail page renders in a view: Back to Dashboard in the error and
\* not-found states, the partner's back button; none on the loading screen.
DetailButtons(view) == IF view \in {"unmounted", "loading"} THEN {} ELSE {"back"}

\* fetchPartnerDetail after its await, and the finally block.
DetailSettles(outcome) ==
  /\ detail.view = "loading"
  /\ detail' = [view |-> DetailViewOf(outcome), response |-> outcome]
  /\ UNCHANGED unitVars
  /\ UNCHANGED <<appVars, panelData, panelFlags, localFilters, browserVars, inflight,
                 initPending, snapshotLife, restored>>

\* The user scrolls the page.
Scroll(y) ==
  /\ AppRendered
  /\ y # scrollY
  /\ scrollY' = y
  /\ restored' = NoState
  /\ UNCHANGED <<appVars, panelData, panelFlags, localFilters, location, histState,
                 pendingScroll, scrollTimers, inflight, initPending, snapshotLife>>
  /\ UNCHANGED detail
  /\ UNCHANGED unitVars

\* window.location.reload() (the error screen's button, or the browser's): a new App
\* at the same path, its location state read from the history entry; the old page's
\* requests, timers and globals are gone, and the splash screen is at the top.
Reload ==
  LET loc == [path |-> location.path, state |-> histState]
      m == AfterMount(loc, histState)
  IN
  /\ partners' = NoPartners /\ totalCount' = 0 /\ hasMore' = FALSE
  /\ activeFilters' = m.activeFilters /\ currentPage' = m.currentPage
  /\ sortField' = m.sortField /\ sortDirection' = m.sortDirection
  /\ loading' = TRUE /\ error' = None
  /\ overview' = None /\ tierAnalytics' = None /\ performanceAnalyticsData' = None
  /\ tierAnalyticsData' = None
  /\ overviewLoading' = TRUE /\ funnelLoading' = TRUE /\ partnerMgmtLoading' = TRUE
  /\ funnelInitialLoading' = TRUE /\ performanceAnalyticsLoading' = TRUE
  /\ tierAnalyticsLoading' = TRUE
  /\ localFilters' = EmptyFilters
  /\ location' = Arrived(loc) /\ histState' = m.histState
  /\ scrollY' = 0 /\ pendingScroll' = m.pendingScroll /\ scrollTimers' = 0
  /\ inflight' = BagOfSeq(m.reqs) /\ initPending' = InitialLoads
  /\ snapshotLife' = LifeAfterEntry(loc, snapshotLife, m.restores)
  /\ restored' = IF m.restores > 0 THEN loc.state ELSE NoState
  /\ detail' = Unmounted
  /\ UNCHANGED unitVars

\* ------------------------------------------------------------ the filter sets as objects
\* The filter inputs edited here, and the value an object holds for a key.
PanelKeys == {"country", "tier"}
ObjectValue(ref, key) ==
  IF key \in DOMAIN filterObjects[ref] THEN filterObjects[ref][key] ELSE ""

\* An edit that writes into the object it was given.
EditedInPlace(ref) == ref

\* The object an edit of the object ref writes to: { ...localFilters, ... } and {} are
\* new objects.
EditedObject(ref) == Len(filterObjects) + 1

\* The objects once the filter set value has been written to the object target.
Written(target, value) ==
  IF target > Len(filterObjects) THEN Append(filterObjects, value)
  ELSE [filterObjects EXCEPT ![target] = value]

\* PartnerFilters.handleFilterChange and App.handleFilterChange, by reference.
EditFilterObject(key, value) ==
  /\ filterRefs.path = "list"
  /\ Len(filterObjects) < MaxObjects
  /\ value # ObjectValue(filterRefs.localFilters, key)
  /\ LET target == EditedObject(filterRefs.localFilters)
     IN /\ filterObjects' = Written(target, ApplyFilter(filterObjects[filterRefs.localFilters],
                                                         key, value))
        /\ filterRefs' = [filterRefs EXCEPT !.localFilters = target,
                                            !.activeFilters = target]
  /\ UNCHANGED mainVars /\ OtherUnitsUnchanged("objects")

\* PartnerFilters.clearFilters and App.handleFilterChange, by reference.
ClearFilterObject ==
  /\ filterRefs.path = "list"
  /\ Len(filterObjects) < MaxObjects
  /\ DOMAIN filterObjects[filterRefs.localFilters] # {}
  /\ LET target == EditedObject(filterRefs.localFilters)
     IN /\ filterObjects' = Written(target, EmptyFilters)
        /\ filterRefs' = [filterRefs EXCEPT !.localFilters = target,
                                            !.activeFilters = target]
  /\ UNCHANGED mainVars /\ OtherUnitsUnchanged("objects")

\* App.handlePartnerSelect: savedFilters is the activeFilters object itself.
CaptureFilterObject ==
  /\ filterRefs.path = "list"
  /\ filterRefs' = [filterRefs EXCEPT !.savedFilters = filterRefs.activeFilters,
                                      !.captured = filterObjects[filterRefs.activeFilters],
                                      !.path = "detail"]
  /\ UNCHANGED <<mainVars, filterObjects>> /\ OtherUnitsUnchanged("objects")

\* App.handleBackToDashboard with the snapshot, the filter panel's mount
\* (useState(activeFilters)) and the restore effect (setActiveFilters(savedFilters)).
ReturnFilterObject ==
  /\ filterRefs.path = "detail"
  /\ filterRefs' = [filterRefs EXCEPT !.localFilters = filterRefs.activeFilters,
                                      !.activeFilters = filterRefs.savedFilters,
                                      !.path = "list"]
  /\ UNCHANGED <<mainVars, filterObjects>> /\ OtherUnitsUnchanged("objects")

FilterObjectNext ==
  \/ \E key \in PanelKeys : \E value \in {"", FilterValue(key)} :
       EditFilterObject(key, value)
  \/ ClearFilterObject
  \/ CaptureFilterObject
  \/ ReturnFilterObject

FilterObjectSpec == Init /\ [][FilterObjectNext]_vars

\* ------------------------------------------------------------ the ratio functions
Abs(x) == IF x < 0 THEN 0 - x ELSE x

\* (num / den).toFixed(1) for num >= 0, den > 0: the nearest tenth, the larger one on
\* a tie, written with one decimal.
toFixed1(num, den) ==
  LET tenths == (20 * num + den) \div (2 * den)
  IN ToString(tenths \div 10) \o "." \o ToString(tenths % 10)

\* formattedRatio of the three ratio functions: absRatio = |earnings / second * 100|,
\* abbreviated from 1000 (K), 1000000 (M) and 1000000000 (B) on.
formattedRatio(earnings, second) ==
  LET e == Abs(earnings)
      r == Abs(second)
  IN IF e \div r >= 10000000 THEN toFixed1(e, 10000000 * r) \o "B"
     ELSE IF e \div r >= 10000 THEN toFixed1(e, 10000 * r) \o "M"
     ELSE IF e \div r >= 10 THEN toFixed1(e, 10 * r) \o "K"
     ELSE toFixed1(100 * e, r)

\* A ratio read as the excess of the earnings over the revenue.
calculateExcessPercentage(earnings, revenue) ==
  IF revenue = 0 THEN "0.0%"
  ELSE IF revenue < 0 THEN "--" \o formattedRatio(earnings, revenue) \o "%"
  ELSE IF earnings > revenue THEN "-" \o formattedRatio(earnings - revenue, revenue) \o "%"
  ELSE formattedRatio(earnings, revenue) \o "%"

\* PartnerTable.calculateRatioPercentage.
calculateRatioPercentage(earnings, revenue) ==
  IF revenue = 0 THEN "0.0%"
  ELSE IF revenue < 0 THEN "--" \o formattedRatio(earnings, revenue) \o "%"
  ELSE IF earnings > revenue THEN "-" \o formattedRatio(earnings, revenue) \o "%"
  ELSE formattedRatio(earnings, revenue) \o "%"

\* PartnerDetail.calculateRatioPercentage.
detailCalculateRatioPercentage(earnings, revenue) ==
  IF revenue = 0 THEN "0.0%"
  ELSE IF revenue < 0 THEN "--" \o formattedRatio(earnings, revenue) \o "%"
  ELSE IF earnings > revenue THEN "-" \o formattedRatio(earnings, revenue) \o "%"
  ELSE formattedRatio(earnings, revenue) \o "%"

\* PartnerDetail.calculateEtDRatioPercentage.
calculateEtDRatioPercentage(earnings, deposits) ==
  IF deposits = 0 THEN "0.0%"
  ELSE IF deposits < 0 THEN "--" \o formattedRatio(earnings, deposits) \o "%"
  ELSE IF earnings < 0 THEN "-" \o formattedRatio(earnings, deposits) \o "%"
  ELSE formattedRatio(earnings, deposits) \o "%"

\* The partner records' amounts the functions are called with.
Earnings == {0 - 5000, 0 - 50, 0, 1, 50, 2500, 5000, 10000, 12000, 50000, 20000000}
Revenues == {0 - 2000, 0 - 1, 0, 1, 100, 2000, 10000}

\* The call's record once the function has returned.
Returned(fn, result) == [ratioCall EXCEPT !.fn = fn, !.result = result]

\* A row of the partner table renders its EtR cell.
TableRatio ==
  /\ ratioCall.fn = "none"
  /\ ratioCall' = Returned("PartnerTable.calculateRatioPercentage",
                           calculateRatioPercentage(ratioCall.earnings, ratioCall.revenue))
  /\ UNCHANGED mainVars /\ OtherUnitsUnchanged("ratio")

\* The detail view renders an EtR value.
DetailRatio ==
  /\ ratioCall.fn = "none"
  /\ ratioCall' = Returned("PartnerDetail.calculateRatioPercentage",
                           detailCalculateRatioPercentage(ratioCall.earnings,
                                                          ratioCall.revenue))
  /\ UNCHANGED mainVars /\ OtherUnitsUnchanged("ratio")

\* The detail view renders an EtD value, the deposits in the second place.
DetailEtDRatio ==
  /\ ratioCall.fn = "none"
  /\ ratioCall' = Returned("PartnerDetail.calculateEtDRatioPercentage",
                           calculateEtDRatioPercentage(ratioCall.earnings,
                                                       ratioCall.revenue))
  /\ UNCHANGED mainVars /\ OtherUnitsUnchanged("ratio")

RatioInit ==
  /\ Mounted([path |-> "list", state |-> NoState], NoState, 0, "none")
  /\ OtherUnitsIdle("ratio")
  /\ ratioCall \in {NotCalled(e, r) : e \in Earnings, r \in Revenues}

RatioNext == TableRatio \/ DetailRatio \/ DetailEtDRatio

RatioSpec == RatioInit /\ [][RatioNext]_vars

\* ------------------------------------------------------------ the ratio colour classes
\* A ratio in percent, as the fraction it is: (earnings / revenue) * 100, revenue > 0.
Percent(earnings, revenue) == <<100 * earnings, revenue>>

\* ratio < k and ratio >= k for a ratio given as a fraction with a positive denominator.
Below(ratio, k) == ratio[1] < k * ratio[2]
AtLeast(ratio, k) == ratio[1] >= k * ratio[2]

\* PartnerTable.getEtrColorClass.
getEtrColorClass(earnings, revenue) ==
  IF revenue = 0 THEN "etr-critically-low"
  ELSE IF revenue < 0 THEN "etr-double-loss"
  ELSE IF earnings > revenue THEN "etr-unprofitable"
  ELSE LET ratio == Percent(earnings, revenue)
       IN IF 1000 * earnings >= revenue /\ Below(ratio, 10) THEN "etr-critically-low"
          ELSE IF AtLeast(ratio, 10) /\ Below(ratio, 20) THEN "etr-very-low"
          ELSE IF AtLeast(ratio, 20) /\ Below(ratio, 30) THEN "etr-low"
          ELSE IF AtLeast(ratio, 30) /\ ~(ratio[1] > 40 * ratio[2]) THEN "etr-fair"
          ELSE IF ratio[1] > 40 * ratio[2] THEN "etr-high"
          ELSE "etr-critically-low"

\* ApplicationFunnel.getEtrClass.
getEtrClass(ratio) ==
  IF Below(ratio, 10) THEN "etr-critically-low"
  ELSE IF AtLeast(ratio, 10) /\ Below(ratio, 20) THEN "etr-very-low"
  ELSE IF AtLeast(ratio, 20) /\ Below(ratio, 30) THEN "etr-low"
  ELSE IF AtLeast(ratio, 30) /\ ~(ratio[1] > 40 * ratio[2]) THEN "etr-fair"
  ELSE IF ratio[1] > 40 * ratio[2] THEN "etr-high"
  ELSE "etr-critically-low"

\* The ratio the funnel's tier rows hand to getEtrClass:
\* revenue > 0 ? ((earnings / revenue) * 100) : 0.
etrRatio(earnings, revenue) == IF revenue > 0 THEN Percent(earnings, revenue) ELSE <<0, 1>>

\* A row of the partner table renders the class of its EtR cell.
TableColorClass ==
  /\ ratioCall.fn = "none"
  /\ ratioCall' = Returned("PartnerTable.getEtrColorClass",
                           getEtrColorClass(ratioCall.earnings, ratioCall.revenue))
  /\ UNCHANGED mainVars /\ OtherUnitsUnchanged("ratio")

\* A tier row of the funnel renders the class of its EtR cell.
FunnelEtrClass ==
  /\ ratioCall.fn = "none"
  /\ ratioCall' = Returned("ApplicationFunnel.getEtrClass",
                           getEtrClass(etrRatio(ratioCall.earnings, ratioCall.revenue)))
  /\ UNCHANGED mainVars /\ OtherUnitsUnchanged("ratio")

ColorEarnings == {e \in Earnings : Abs(e) <= 50000} \cup {1000, 2000, 3000, 4000, 4001}

ColorInit ==
  /\ Mounted([path |-> "list", state |-> NoState], NoState, 0, "none")
  /\ OtherUnitsIdle("ratio")
  /\ ratioCall \in {NotCalled(e, r) : e \in ColorEarnings, r \in Revenues}

ColorNext == TableColorClass \/ FunnelEtrClass

ColorSpec == ColorInit /\ [][ColorNext]_vars

\* ------------------------------------------------------------ the tier shares
\* Object.values(data).reduce((sum, val) => sum + val, 0) over the tiers in S.
RECURSIVE SumOver(_, _)
SumOver(data, S) ==
  IF S = {} THEN 0
  ELSE LET tier == CHOOSE t \in S : TRUE IN data[tier] + SumOver(data, S \ {tier})

\* ApplicationFunnel's calculatePercentages: each percentage as the fraction
\* (data[tier] / total) * 100, or 0 when the total is not positive.
calculatePercentages(data) ==
  LET total == SumOver(data, ShareTiers)
  IN [total |-> total,
      percentages |-> [tier \in ShareTiers |->
                         IF total > 0 THEN <<100 * data[tier], total>> ELSE <<0, 1>>]]

\* The totals of a measure (revenue, earnings, clients) summed per tier over the months.
TierTotals == {0 - 300, 0, 100, 200}

\* The distribution bars are rendered for a measure.
SharesCalculated ==
  /\ ~shareCall.called
  /\ LET result == calculatePercentages(shareCall.data)
     IN shareCall' = [shareCall EXCEPT !.called = TRUE, !.total = result.total,
                                       !.percentages = result.percentages]
  /\ UNCHANGED mainVars /\ OtherUnitsUnchanged("share")

ShareInit ==
  /\ Mounted([path |-> "list", state |-> NoState], NoState, 0, "none")
  /\ OtherUnitsIdle("share")
  /\ shareCall \in {NoShares(data) : data \in [ShareTiers -> TierTotals]}

ShareNext == SharesCalculated

ShareSpec == ShareInit /\ [][ShareNext]_vars

\* ------------------------------------------------------------ formatNumber
\* Numbers are given in tenths: num stands for num / 10.
\* Math.round: the nearest integer, the larger one on a tie.
MathRound(num) == (num + 5) \div 10

\* Three digits of a group after the first, with their leading zeros.
ThreeDigits(n) ==
  ToString(n \div 100) \o ToString((n \div 10) % 10) \o ToString(n % 10)

\* Intl.NumberFormat('en-US') of an integer n >= 0: groups of three digits.
RECURSIVE Grouped(_)
Grouped(n) ==
  IF n < 1000 THEN ToString(n)
  ELSE Grouped(n \div 1000) \o "," \o ThreeDigits(n % 1000)

\* Intl.NumberFormat('en-US', {minimumFractionDigits: 0, maximumFractionDigits: 0})
\* of an integer.
IntlInteger(n) == IF n < 0 THEN "-" \o Grouped(0 - n) ELSE Grouped(n)

\* Intl.NumberFormat('en-US', {minimumFractionDigits: 2, maximumFractionDigits: 2})
\* of a number with one decimal.
IntlTwoDecimals(num) ==
  (IF num < 0 THEN "-" ELSE "") \o Grouped(Abs(num) \div 10)
    \o "." \o ToString(Abs(num) % 10) \o "0"

\* An abbreviation that tests the rounded value itself, not its magnitude.
formatNumberBySignedValue(num, exact) ==
  IF exact
  THEN IF num % 10 = 0 THEN IntlInteger(num \div 10) ELSE IntlTwoDecimals(num)
  ELSE LET rounded == MathRound(num)
       IN IF rounded >= 1000000 THEN toFixed1(rounded, 1000000) \o "M"
          ELSE IF rounded >= 1000 THEN toFixed1(rounded, 1000) \o "K"
          ELSE IntlInteger(rounded)

\* App.formatNumber(num, exact). The T and B branches divide by 1000 first, which
\* leaves the rounding to one decimal as it is.
formatNumber(num, exact) ==
  IF exact
  THEN IF num % 10 = 0 THEN IntlInteger(num \div 10) ELSE IntlTwoDecimals(num)
  ELSE LET rounded == MathRound(num)
           absRounded == Abs(rounded)
           sign == IF rounded < 0 THEN "-" ELSE ""
       IN IF absRounded \div 1000000 >= 1000000
          THEN sign \o toFixed1(absRounded \div 1000, 1000000000) \o "T"
          ELSE IF absRounded >= 1000000000
          THEN sign \o toFixed1(absRounded \div 1000, 1000000) \o "B"
          ELSE IF absRounded >= 1000000
          THEN sign \o toFixed1(absRounded, 1000000) \o "M"
          ELSE IF absRounded >= 1000
          THEN sign \o toFixed1(absRounded, 1000) \o "K"
          ELSE IntlInteger(rounded)

\* The magnitudes formatted, in tenths, and the numbers: each magnitude and its negative.
Magnitudes ==
  {10, 15, 16, 420, 9994, 9995, 9996, 10000, 12345, 15000, 15495, 123456, 9999994,
   9999996, 10000000, 12340000, 15000000, 99999990}
Numbers == Magnitudes \cup {0 - m : m \in Magnitudes}

\* A table cell or a total renders formatNumber(num).
FormatsAbbreviated ==
  /\ formatCall.fn = "none"
  /\ formatCall' = [formatCall EXCEPT !.fn = "abbreviated",
                                      !.result = formatNumber(formatCall.num, FALSE)]
  /\ UNCHANGED mainVars /\ OtherUnitsUnchanged("format")

\* An overview card renders formatNumber(num, true).
FormatsExact ==
  /\ formatCall.fn = "none"
  /\ formatCall' = [formatCall EXCEPT !.fn = "exact",
                                      !.result = formatNumber(formatCall.num, TRUE)]
  /\ UNCHANGED mainVars /\ OtherUnitsUnchanged("format")

FormatInit ==
  /\ Mounted([path |-> "list", state |-> NoState], NoState, 0, "none")
  /\ OtherUnitsIdle("format")
  /\ formatCall \in {NotFormatted(num) : num \in Numbers}

FormatNext == FormatsAbbreviated \/ FormatsExact

FormatSpec == FormatInit /\ [][FormatNext]_vars

\* ------------------------------------------------------------ PII access
\* What becomes of the pending action, if any, when it stops being the pending one.
Superseded(log, fate) ==
  IF pii.pendingAction = 0 THEN log
  ELSE [log EXCEPT !.fate[pii.pendingAction] = fate]

\* View Details of a table row while PII is hidden: handleRequestPIIAccess stores the
\* action and opens the prompt.
RequestPIIAccess(r) ==
  /\ pii.path = "list" /\ ~pii.showPII
  /\ piiLog.fate[r] = "none"
  /\ \A q \in 1..(r - 1) : piiLog.fate[q] # "none"
  /\ pii' = [pii EXCEPT !.pendingAction = r, !.showPasswordModal = TRUE]
  /\ piiLog' = [Superseded(piiLog, "replaced") EXCEPT !.fate[r] = "pending"]
  /\ UNCHANGED mainVars /\ OtherUnitsUnchanged("pii")

\* View Details while PII is shown: onPartnerSelect runs at once.
ViewDetails ==
  /\ pii.path = "list" /\ pii.showPII
  /\ pii' = [pii EXCEPT !.path = "detail"]
  /\ UNCHANGED piiLog
  /\ UNCHANGED mainVars /\ OtherUnitsUnchanged("pii")

\* The header's PII toggle.
TogglePII ==
  /\ pii' = IF ~pii.showPII THEN [pii EXCEPT !.showPasswordModal = TRUE]
            ELSE [pii EXCEPT !.showPII = FALSE]
  /\ UNCHANGED piiLog
  /\ UNCHANGED mainVars /\ OtherUnitsUnchanged("pii")

\* A Cancel that leaves the stored action in place.
PendingKeptOnCancel == pii.pendingAction

\* The prompt's Cancel: setPendingAction(null).
PendingAfterCancel == 0

\* The prompt's Cancel button.
CancelPassword ==
  /\ pii.showPasswordModal
  /\ pii' = [pii EXCEPT !.showPasswordModal = FALSE, !.passwordError = FALSE,
                        !.pendingAction = PendingAfterCancel]
  /\ piiLog' = Superseded(piiLog, "cancelled")
  /\ UNCHANGED mainVars /\ OtherUnitsUnchanged("pii")

\* handlePasswordSubmit, the input being the password (correct) or not.
PasswordSubmit(correct) ==
  /\ pii.showPasswordModal
  /\ IF correct
     THEN /\ pii' = [pii EXCEPT !.showPII = TRUE, !.showPasswordModal = FALSE,
                                !.passwordError = FALSE, !.pendingAction = 0,
                                !.path = IF pii.pendingAction # 0 THEN "detail" ELSE @]
          /\ piiLog' = IF pii.pendingAction = 0 THEN piiLog
                       ELSE [piiLog EXCEPT !.runs[pii.pendingAction] = @ + 1]
     ELSE /\ pii' = [pii EXCEPT !.passwordError = TRUE]
          /\ piiLog' = IF pii.pendingAction = 0 THEN piiLog
                       ELSE [piiLog EXCEPT !.fate[pii.pendingAction] = "refused"]
  /\ UNCHANGED mainVars /\ OtherUnitsUnchanged("pii")

\* Back from the detail page to the list.
BackFromDetail ==
  /\ pii.path = "detail"
  /\ pii' = [pii EXCEPT !.path = "list"]
  /\ UNCHANGED piiLog
  /\ UNCHANGED mainVars /\ OtherUnitsUnchanged("pii")

PIINext ==
  \/ \E r \in 1..MaxRequests : RequestPIIAccess(r)
  \/ ViewDetails
  \/ TogglePII
  \/ CancelPassword
  \/ \E correct \in BOOLEAN : PasswordSubmit(correct)
  \/ BackFromDetail

PIISpec == Init /\ [][PIINext]_vars

\* ------------------------------------------------------------ PartnerEnablement
Countries == {"Brazil", "India"}
FromTiers == {"All Tiers", "Gold"}
ToTiers == {"All Tiers", "Platinum"}

\* The selection a request is made for, which is also what currentDataSelection records
\* and what identifies the data of its response.
Selection(country, fromTier, toTier) ==
  [country |-> country, fromTier |-> fromTier, toTier |-> toTier]

\* useEffect(..., [selectedCountry, selectedRegion, appliedFromTier, appliedToTier]) in
\* the render with the panel state e: the state it leaves and the requests it makes.
EnablementEffect(e) ==
  IF e.selectedCountry # ""
  THEN LET wanted == Selection(e.selectedCountry, e.appliedFromTier, e.appliedToTier)
           needsFetch == \/ e.tierProgressionData = NoProgression
                         \/ e.currentDataSelection = NoProgression
                         \/ e.currentDataSelection # <<wanted>>
       IN IF needsFetch
          THEN [state |-> [e EXCEPT !.loading = TRUE, !.error = None], reqs |-> <<wanted>>]
          ELSE [state |-> e, reqs |-> <<>>]
  ELSE [state |-> [e EXCEPT !.tierProgressionData = NoProgression,
                           !.currentDataSelection = NoProgression],
        reqs |-> <<>>]

\* The selectedCountry prop changes (the country selector of the parent, or its clear
\* button), and the effect runs.
SelectCountry(country) ==
  /\ country # enablement.selectedCountry
  /\ LET after == EnablementEffect([enablement EXCEPT !.selectedCountry = country])
     IN /\ BagCardinality(progressionInflight) + Len(after.reqs) <= MaxProgression
        /\ enablement' = after.state
        /\ progressionInflight' = progressionInflight (+) BagOfSeq(after.reqs)
  /\ UNCHANGED mainVars /\ OtherUnitsUnchanged("enablement")

\* The FROM and TO selects followed by Apply Filter: applyTierFilter, and the effect.
ApplyTierFilter(fromTier, toTier) ==
  /\ enablement.selectedCountry # ""
  /\ ~enablement.loading /\ ~enablement.isApplyingFilter
  /\ <<fromTier, toTier>> # <<enablement.appliedFromTier, enablement.appliedToTier>>
  /\ LET after == EnablementEffect([enablement EXCEPT !.isApplyingFilter = TRUE,
                                                      !.appliedFromTier = fromTier,
                                                      !.appliedToTier = toTier])
     IN /\ BagCardinality(progressionInflight) + Len(after.reqs) <= MaxProgression
        /\ enablement' = after.state
        /\ progressionInflight' = progressionInflight (+) BagOfSeq(after.reqs)
  /\ UNCHANGED mainVars /\ OtherUnitsUnchanged("enablement")

\* fetchTierProgressionData after its await: a successful answer, an answer without
\* success, or a rejection; then the finally block.
ProgressionOutcomes == {"success", "unsuccessful", "rejected"}
ProgressionSettles(req, outcome) ==
  /\ BagIn(req, progressionInflight)
  /\ progressionInflight' = progressionInflight (-) SetToBag({req})
  /\ enablement' =
       [enablement EXCEPT
          !.tierProgressionData = IF outcome = "success" THEN <<req>>
                                  ELSE IF outcome = "rejected" THEN NoProgression ELSE @,
          !.currentDataSelection = IF outcome = "success" THEN <<req>> ELSE @,
          !.error = IF outcome = "success" THEN @
                    ELSE IF outcome = "unsuccessful"
                    THEN "Failed to fetch tier progression data"
                    ELSE "Error loading tier progression data",
          !.loading = FALSE,
          !.isApplyingFilter = FALSE]
  /\ UNCHANGED mainVars /\ OtherUnitsUnchanged("enablement")

EnablementNext ==
  \/ \E country \in Countries \cup {""} : SelectCountry(country)
  \/ \E fromTier \in FromTiers, toTier \in ToTiers : ApplyTierFilter(fromTier, toTier)
  \/ \E country \in Countries, fromTier \in FromTiers, toTier \in ToTiers,
        outcome \in ProgressionOutcomes :
       ProgressionSettles(Selection(country, fromTier, toTier), outcome)

EnablementSpec == Init /\ [][EnablementNext]_vars

\* ------------------------------------------------------------ PartnerOverview
\* The tier transitions partners make, as <<from tier, to tier>>, and the score the
\* backend gives one such movement: positive for a promotion, negative for a demotion.
Transitions == {<<"Gold", "Platinum">>, <<"Silver", "Platinum">>, <<"Platinum", "Gold">>}
TransitionScore(t) == IF t = <<"Platinum", "Gold">> THEN 0 - 1 ELSE 1
MovementTypes == {"positive", "negative"}
MovementType(t) == IF TransitionScore(t) > 0 THEN "positive" ELSE "negative"
OverviewMonth == "2024-01"

\* What the backend holds: how many partners of each country made each transition in
\* the month, whether its global answer carries the tier transition data, and whether
\* it carries the pre-calculated country breakdowns.
Backends ==
  [movements : [Countries \X Transitions -> 0..1],
   transitionsIncluded : BOOLEAN, precalculated : BOOLEAN]

\* from_tier and to_tier of a request or of the applied filter against a transition.
MatchesTiers(t, fromTier, toTier) ==
  /\ fromTier = "All Tiers" \/ t[1] = fromTier
  /\ toTier = "All Tiers" \/ t[2] = toTier

\* The sum of a field over a set of records.
RECURSIVE SumField(_, _)
SumField(S, field) ==
  IF S = {} THEN 0
  ELSE LET r == CHOOSE x \in S : TRUE IN r[field] + SumField(S \ {r}, field)

\* The countries of a month's movements of one type that match the tiers, each with
\* its number of partners and its score.
CountryBreakdown(movements, movementType, fromTier, toTier) ==
  LET matching == {t \in Transitions : /\ MovementType(t) = movementType
                                       /\ MatchesTiers(t, fromTier, toTier)}
      movedIn(c) == SumOver([t \in Transitions |-> movements[c, t]], matching)
      score(c) ==
        SumOver([t \in Transitions |-> movements[c, t] * TransitionScore(t)], matching)
  IN {[country |-> c, partners_with_movement |-> movedIn(c), score |-> score(c)] :
        c \in {k \in Countries : movedIn(k) > 0}}

\* The month's tier_transitions: one entry for each transition that was made.
TierTransitions(movements, fromTier, toTier) ==
  LET count(t) == SumOver([c \in Countries |-> movements[c, t]], Countries)
  IN {[from_tier |-> t[1], to_tier |-> t[2], count |-> count(t),
       total_score |-> count(t) * TransitionScore(t)] :
        t \in {t \in Transitions : MatchesTiers(t, fromTier, toTier) /\ count(t) > 0}}

\* The scores and counts of a month, as the client recalculates them from a set of
\* tier_transitions entries.
MonthScores(transitions) ==
  LET positive == {t \in transitions : t.total_score > 0}
      negative == {t \in transitions : t.total_score < 0}
  IN [positive_score |-> SumField(positive, "total_score"),
      negative_score |-> SumField(negative, "total_score"),
      positive_movements |-> SumField(positive, "count"),
      negative_movements |-> SumField(negative, "count"),
      total_partners_with_movement |-> SumField(transitions, "count")]

\* The summary of a global answer over its months.
SummaryOf(months) ==
  LET total(field) == SumField({months[i] : i \in 1..Len(months)}, field)
  IN [total_positive_score |-> total("positive_score"),
      total_negative_score |-> total("negative_score"),
      total_months |-> Len(months),
      weighted_net_movement |-> total("positive_score") + total("negative_score")]

\* The data of /api/partner-tier-progression?is_global=true for the tiers asked for;
\* the preloaded data is the answer for all tiers. An absent field is <<>>.
GlobalProgression(b, fromTier, toTier) ==
  LET transitions == TierTransitions(b.movements, fromTier, toTier)
      scores == MonthScores(transitions)
      month ==
        [month |-> OverviewMonth,
         positive_score |-> scores.positive_score,
         negative_score |-> scores.negative_score,
         positive_movements |-> scores.positive_movements,
         negative_movements |-> scores.negative_movements,
         total_partners_with_movement |-> scores.total_partners_with_movement,
         tier_transitions |-> IF b.transitionsIncluded THEN <<transitions>> ELSE <<>>,
         country_breakdowns |->
           IF b.precalculated
           THEN <<[type \in MovementTypes |->
                     CountryBreakdown(b.movements, type, fromTier, toTier)]>>
           ELSE <<>>]
  IN [monthly_progression |-> <<month>>, summary |-> SummaryOf(<<month>>)]

\* The client-side filtering of fetchGlobalTierProgressionData: each month of the
\* preloaded data with its scores recalculated from the transitions that match.
\* The loaded data carries monthly_progression and summary, so nothing in the try
\* block throws and the catch that falls through to the request is not entered.
ClientFiltered(data, fromTier, toTier) ==
  LET filteredMonth(monthData) ==
        IF monthData.tier_transitions = <<>> THEN monthData
        ELSE LET filteredTransitions ==
                   {t \in monthData.tier_transitions[1] :
                      /\ fromTier = "All Tiers" \/ t.from_tier = fromTier
                      /\ toTier = "All Tiers" \/ t.to_tier = toTier}
                 scores == MonthScores(filteredTransitions)
             IN [monthData EXCEPT
                   !.positive_score = scores.positive_score,
                   !.negative_score = scores.negative_score,
                   !.positive_movements = scores.positive_movements,
                   !.negative_movements = scores.negative_movements,
                   !.total_partners_with_movement = scores.total_partners_with_movement]
      filteredMonthlyData ==
        [i \in 1..Len(data.monthly_progression) |-> filteredMonth(data.monthly_progression[i])]
  IN [monthly_progression |-> filteredMonthlyData, summary |-> SummaryOf(filteredMonthlyData)]

\* The requests of the section.
ProgressionRequest(fromTier, toTier) ==
  [api |-> "partner-tier-progression", month |-> None, movement_type |-> None,
   from_tier |-> fromTier, to_tier |-> toTier]
CountriesRequest(month, movementType, fromTier, toTier) ==
  [api |-> "global-tier-progression-countries", month |-> month,
   movement_type |-> movementType, from_tier |-> fromTier, to_tier |-> toTier]
OverviewRequests ==
  {ProgressionRequest(f, t) : f \in FromTiers, t \in ToTiers}
    \cup {CountriesRequest(OverviewMonth, type, f, t) :
            type \in MovementTypes, f \in FromTiers, t \in ToTiers}

\* getCurrentGlobalData
getCurrentGlobalData(o) ==
  IF o.filteredGlobalData # NoProgression THEN o.filteredGlobalData
  ELSE o.globalTierProgressionData

\* fetchGlobalTierProgressionData made to skip its client-side filtering.
NeverFiltersLocally(data) == FALSE

\* Whether fetchGlobalTierProgressionData can filter on the client: the preloaded data
\* is there with its monthly_progression.
FiltersLocally(data) == data # NoProgression

\* fetchGlobalTierProgressionData(fromTier, toTier) up to its await or return, in the
\* render with the section state o: the state it leaves and the requests it makes.
fetchGlobalTierProgressionData(o, fromTier, toTier) ==
  IF fromTier = "All Tiers" /\ toTier = "All Tiers"
  THEN [state |-> [o EXCEPT !.filteredGlobalData = NoProgression,
                            !.globalProgressionError = None,
                            !.isApplyingFilter = FALSE],
        reqs |-> <<>>]
  ELSE IF FiltersLocally(o.globalTierProgressionData)
  THEN [state |-> [o EXCEPT !.filteredGlobalData =
                              <<ClientFiltered(o.globalTierProgressionData[1],
                                               fromTier, toTier)>>,
                            !.isApplyingFilter = FALSE,
                            !.globalProgressionError = None],
        reqs |-> <<>>]
  ELSE [state |-> [o EXCEPT !.tierFilterLoading = TRUE, !.globalProgressionError = None],
        reqs |-> <<ProgressionRequest(fromTier, toTier)>>]

\* The preloaded props arrive: the global data, or none when the preload failed.
GlobalProgressionLoads ==
  /\ globalEnablement.globalProgressionLoading
  /\ globalEnablement' = [globalEnablement EXCEPT
                    !.globalProgressionLoading = FALSE,
                    !.globalTierProgressionData =
                      <<GlobalProgression(backend, "All Tiers", "All Tiers")>>]
  /\ UNCHANGED <<overviewRequests, backend>>
  /\ UNCHANGED mainVars /\ OtherUnitsUnchanged("overview")

GlobalProgressionFails ==
  /\ globalEnablement.globalProgressionLoading
  /\ globalEnablement' = [globalEnablement EXCEPT !.globalProgressionLoading = FALSE]
  /\ UNCHANGED <<overviewRequests, backend>>
  /\ UNCHANGED mainVars /\ OtherUnitsUnchanged("overview")

\* The From and To selects followed by Apply Filter: applyTierFilter, and the effect on
\* [appliedFromTier, appliedToTier], which runs only when one of them changed.
OverviewApplyTierFilter(fromTier, toTier) ==
  /\ \/ globalEnablement.globalTierProgressionData # NoProgression
     \/ ~globalEnablement.globalProgressionLoading /\ globalEnablement.globalProgressionError = None
  /\ ~globalEnablement.globalProgressionLoading /\ ~globalEnablement.tierFilterLoading
  /\ ~globalEnablement.isApplyingFilter
  /\ ~globalEnablement.showCountryModal
  /\ LET applied == [globalEnablement EXCEPT !.isApplyingFilter = TRUE,
                                     !.appliedFromTier = fromTier,
                                     !.appliedToTier = toTier]
         after == IF <<fromTier, toTier>> =
                       <<globalEnablement.appliedFromTier, globalEnablement.appliedToTier>>
                  THEN [state |-> applied, reqs |-> <<>>]
                  ELSE fetchGlobalTierProgressionData(applied, fromTier, toTier)
     IN /\ BagCardinality(overviewRequests) + Len(after.reqs) <= MaxOverviewRequests
        /\ globalEnablement' = after.state
        /\ overviewRequests' = overviewRequests (+) BagOfSeq(after.reqs)
  /\ UNCHANGED backend
  /\ UNCHANGED mainVars /\ OtherUnitsUnchanged("overview")

\* fetchGlobalTierProgressionData after its await, and its finally block.
TierFilterSettles(req, outcome) ==
  /\ req.api = "partner-tier-progression"
  /\ BagIn(req, overviewRequests)
  /\ overviewRequests' = overviewRequests (-) SetToBag({req})
  /\ globalEnablement' =
       [globalEnablement EXCEPT
          !.filteredGlobalData =
            IF outcome = "success"
            THEN <<GlobalProgression(backend, req.from_tier, req.to_tier)>>
            ELSE IF outcome = "rejected" THEN NoProgression ELSE @,
          !.globalProgressionError =
            IF outcome = "success" THEN @
            ELSE IF outcome = "unsuccessful"
            THEN "Failed to fetch filtered global tier progression data"
            ELSE "Error loading filtered global tier progression data",
          !.tierFilterLoading = FALSE,
          !.isApplyingFilter = FALSE]
  /\ UNCHANGED backend
  /\ UNCHANGED mainVars /\ OtherUnitsUnchanged("overview")

\* A click on the month's positive or negative score: handleGlobalMovementClick up to
\* its await or return.
GlobalMovementClick(movementType) ==
  /\ globalEnablement.globalProgressionError = None
  /\ getCurrentGlobalData(globalEnablement) # NoProgression
  /\ ~globalEnablement.showCountryModal
  /\ LET currentData == getCurrentGlobalData(globalEnablement)[1]
         monthData == currentData.monthly_progression[1]
         score == IF movementType = "positive" THEN monthData.positive_score
                  ELSE monthData.negative_score
     IN /\ score # 0
        /\ IF monthData.country_breakdowns # <<>>
           THEN /\ globalEnablement' =
                     [globalEnablement EXCEPT
                        !.selectedCountryData =
                          <<[month |-> monthData.month, movementType |-> movementType,
                             countries |-> monthData.country_breakdowns[1][movementType]]>>,
                        !.showCountryModal = TRUE]
                /\ UNCHANGED overviewRequests
           ELSE /\ BagCardinality(overviewRequests) < MaxOverviewRequests
                /\ overviewRequests' = overviewRequests (+)
                     SetToBag({CountriesRequest(monthData.month, movementType,
                                                globalEnablement.appliedFromTier,
                                                globalEnablement.appliedToTier)})
                /\ UNCHANGED globalEnablement
  /\ UNCHANGED backend
  /\ UNCHANGED mainVars /\ OtherUnitsUnchanged("overview")

\* fetchCountryBreakdown after its await: the modal opens on a successful answer only.
CountryBreakdownSettles(req, outcome) ==
  /\ req.api = "global-tier-progression-countries"
  /\ BagIn(req, overviewRequests)
  /\ overviewRequests' = overviewRequests (-) SetToBag({req})
  /\ globalEnablement' =
       IF outcome = "success"
       THEN [globalEnablement EXCEPT
               !.selectedCountryData =
                 <<[month |-> req.month, movementType |-> req.movement_type,
                    countries |-> CountryBreakdown(backend.movements, req.movement_type,
                                                   req.from_tier, req.to_tier)]>>,
               !.showCountryModal = TRUE]
       ELSE globalEnablement
  /\ UNCHANGED backend
  /\ UNCHANGED mainVars /\ OtherUnitsUnchanged("overview")

closeCountryModal ==
  /\ globalEnablement.showCountryModal
  /\ globalEnablement' = [globalEnablement EXCEPT !.showCountryModal = FALSE,
                                  !.selectedCountryData = NoProgression]
  /\ UNCHANGED <<overviewRequests, backend>>
  /\ UNCHANGED mainVars /\ OtherUnitsUnchanged("overview")

OverviewInit ==
  /\ Mounted([path |-> "list", state |-> NoState], NoState, 0, "none")
  /\ OtherUnitsIdle("overview")
  /\ globalEnablement = InitialOverview /\ overviewRequests = EmptyBag
  /\ backend \in Backends

OverviewNext ==
  \/ GlobalProgressionLoads
  \/ GlobalProgressionFails
  \/ \E fromTier \in FromTiers, toTier \in ToTiers : OverviewApplyTierFilter(fromTier, toTier)
  \/ \E req \in OverviewRequests, outcome \in ProgressionOutcomes :
       TierFilterSettles(req, outcome)
  \/ \E movementType \in MovementTypes : GlobalMovementClick(movementType)
  \/ \E req \in OverviewRequests, outcome \in ProgressionOutcomes :
       CountryBreakdownSettles(req, outcome)
  \/ closeCountryModal

OverviewSpec == OverviewInit /\ [][OverviewNext]_vars

\* ------------------------------------------------------------ specification
Next ==
  \/ \E ok \in BOOLEAN : OverviewSettles(ok)
  \/ \E ok \in BOOLEAN : TierAnalyticsSettles(ok)
  \/ \E ok \in BOOLEAN : FunnelSettles(ok)
  \/ \E ok \in BOOLEAN : CountriesSettles(ok)
  \/ MgmtTimerFires
  \/ \E req \in BagToSet(inflight), ok \in BOOLEAN : PartnersSettle(req, ok)
  \/ ScrollTimerFires
  \/ \E key \in FilterKeys : \E value \in {"", FilterValue(key)} : FilterChange(key, value)
  \/ ClearFilters
  \/ \E field \in SortFields : SortChange(field)
  \/ \E newPage \in 1..MaxPage : PageChange(newPage)
  \/ PartnerSelect
  \/ NavigateToPartnerDetail
  \/ HandleBackToDashboard
  \/ \E y \in ScrollOffsets : Scroll(y)
  \/ \E outcome \in DetailOutcomes : DetailSettles(outcome)
  \/ Reload

Spec == Init /\ [][Next]_vars

\* The list with three of its sortable columns in use and no navigation: the loads,
\* the partner-list responses, the filter panel and the column headers.
SortColumns == {"total_earnings", "etr_ratio", "active_clients"}

SortNext ==
  \/ \E ok \in BOOLEAN : OverviewSettles(ok)
  \/ \E ok \in BOOLEAN : TierAnalyticsSettles(ok)
  \/ \E ok \in BOOLEAN : FunnelSettles(ok)
  \/ \E ok \in BOOLEAN : CountriesSettles(ok)
  \/ MgmtTimerFires
  \/ \E req \in BagToSet(inflight), ok \in BOOLEAN : PartnersSettle(req, ok)
  \/ \E key \in FilterKeys : \E value \in {"", FilterValue(key)} : FilterChange(key, value)
  \/ ClearFilters
  \/ \E field \in SortColumns : SortChange(field)
  \/ \E newPage \in 1..MaxPage : PageChange(newPage)

SortSpec == Init /\ [][SortNext]_vars

\* ------------------------------------------------------------ properties
\* The partner-list requests a step issues, and the page a request asks for.
Issued == inflight' (-) inflight
PageOf(req) == (req.offset \div partnersPerPage) + 1

FilterStep == \E key \in FilterKeys : \E value \in {"", FilterValue(key)} : FilterChange(key, value)
SortStep == \E field \in SortFields : SortChange(field)
PageStep == \E newPage \in 1..MaxPage : PageChange(newPage)

\* C1: once every partner-list fetch has resolved, the displayed partner list, total
\* count and has-more flag are those of a response for the filters applied last (the
\* active filters), never those of a response for filters that were superseded.
C1_LatestFilterWins ==
  (InFlight = 0 /\ error = None) =>
    /\ partners.filters = activeFilters
    /\ totalCount = TotalCountOf(activeFilters)
    /\ hasMore = (partners.offset + partnersPerPage < TotalCountOf(activeFilters))

\* C2: every filter application, clear-all and sort change sets the current page to 1
\* and issues exactly one partner-list fetch, with offset 0, from any prior page.
C2_ResetToFirstPage ==
  [][(FilterStep \/ ClearFilters \/ SortStep) =>
       /\ currentPage' = 1
       /\ BagCardinality(Issued) = 1
       /\ \A req \in BagToSet(Issued) : req.offset = 0]_vars

\* Page 2 is displayed while the fetches of a sort change and of a filter application,
\* both made from page 2, are in flight for page 1.
C2_Witness ==
  /\ partners # NoPartners
  /\ partners.offset = partnersPerPage
  /\ currentPage = 1
  /\ BagIn(Request(EmptyFilters, 1, "total_earnings", "asc", FALSE), inflight)
  /\ BagIn(Request([country |-> "Brazil"], 1, "total_earnings", "asc", FALSE), inflight)

\* C3: re-entering the list with a navigation snapshot issues exactly one partner-list
\* fetch, for the snapshot's filters, page and sort, whatever the App's state was.
C3_RestoreIssuesOneFetch ==
  [][(HandleBackToDashboard /\ HasSnapshot(location.state)) =>
       Issued = SetToBag({Request(location.state.savedFilters, location.state.savedPage,
                                  location.state.savedSortField,
                                  location.state.savedSortDirection, TRUE)})]_vars

\* C4: after a round trip to the detail view, once every fetch and scroll timer has
\* settled, the filters, page, sort and scroll offset are the snapshot's and the
\* displayed partners are the snapshot's page for its filters and sort.
C4_RoundTripRestores ==
  (restored # NoState /\ InFlight = 0 /\ scrollTimers = 0 /\ error = None
     /\ location.path = "list") =>
    /\ activeFilters = restored.savedFilters
    /\ currentPage = restored.savedPage
    /\ sortField = restored.savedSortField
    /\ sortDirection = restored.savedSortDirection
    /\ partners = ResponseOf(Request(restored.savedFilters, restored.savedPage,
                                     restored.savedSortField,
                                     restored.savedSortDirection, TRUE)).partners
    /\ scrollY = restored.scrollPosition

C6_ScrollAfterRestoreData ==
  [][(ScrollTimerFires /\ pendingScroll # Undefined /\ error = None) =>
       \A req \in BagToSet(inflight) : ~req.restore]_vars

\* C7: every partner-list fetch a page change issues asks for a page in 1..totalPages.
C7_PageChangeInRange ==
  [][PageStep =>
       \A req \in BagToSet(Issued) : PageOf(req) >= 1 /\ PageOf(req) <= totalPages]_vars

C10_NoFlagStuck ==
  /\ ("overview" \notin initPending => ~overviewLoading)
  /\ ("tier" \notin initPending =>
        ~performanceAnalyticsLoading /\ ~tierAnalyticsLoading /\ ~funnelLoading)
  /\ (initPending \cap FunnelPromiseParts = {} => ~funnelInitialLoading)
  /\ ("mgmtTimer" \notin initPending => ~partnerMgmtLoading)
  /\ (InFlight = 0 => ~loading)
  /\ (initPending = {} => ~SplashShown)

\* Every initial load has settled, the tier-analytics and a partner-list fetch by
\* rejecting, and no flag is left set.
C10_Witness ==
  /\ initPending = {}
  /\ InFlight = 0
  /\ tierAnalytics = None
  /\ overview = Data
  /\ error = ErrPartners

\* C11: a sort change on column f sets the sort field to f, and the direction to asc if
\* f was the sort field and the direction was desc, to desc in every other case (so
\* repeated clicks on one column starting from desc give desc, asc, desc).
C11_SortFlipRule ==
  [][\A f \in SortColumns :
       SortChange(f) =>
         /\ sortField' = f
         /\ sortDirection' = IF sortField = f /\ sortDirection = "desc" THEN "asc" ELSE "desc"]_vars

\* Another column has been clicked twice: it is the sort field, ascending, and its
\* fetch is in flight.
C11_Witness ==
  /\ sortField = "etr_ratio" /\ sortDirection = "asc"
  /\ BagIn(Request(activeFilters, 1, "etr_ratio", "asc", FALSE), inflight)

\* The parameters a request is read by: its filters, its sort and its page.
Carries(req, filterParams, sf, sd, page) ==
  /\ req.filters = filterParams
  /\ req.sort_by = sf /\ req.sort_order = sd
  /\ req.limit = 30 /\ req.offset = (page - 1) * 30

\* C12: a page change leaves the active filters and the sort as they are, and issues
\* one fetch, for the page asked, with exactly those filters and that sort.
C12_PageChangeFrame ==
  [][\A newPage \in 1..MaxPage :
       PageChange(newPage) =>
         /\ activeFilters' = activeFilters
         /\ sortField' = sortField /\ sortDirection' = sortDirection
         /\ BagCardinality(Issued) = 1
         /\ \A req \in BagToSet(Issued) :
              Carries(req, activeFilters, sortField, sortDirection, newPage)]_vars

\* Page 2 of the filtered list, sorted by another column, has been asked for.
C12_Witness ==
  /\ currentPage = 2
  /\ activeFilters = [country |-> "Brazil"]
  /\ BagIn(Request([country |-> "Brazil"], 2, "etr_ratio", "desc", FALSE), inflight)

\* C13: a sort change leaves the active filters as they are and issues one fetch, with
\* those filters (also when they were applied just before) and the new sort.
C13_SortChangeKeepsFilters ==
  [][\A f \in SortColumns :
       SortChange(f) =>
         /\ activeFilters' = activeFilters
         /\ BagCardinality(Issued) = 1
         /\ \A req \in BagToSet(Issued) :
              Carries(req, activeFilters, f, sortDirection', 1)]_vars

\* The fetch of a filter just applied is still in flight when the sort changes: both
\* fetches carry the filter.
C13_Witness ==
  /\ activeFilters = [country |-> "Brazil"]
  /\ BagIn(Request([country |-> "Brazil"], 1, "total_earnings", "desc", FALSE), inflight)
  /\ BagIn(Request([country |-> "Brazil"], 1, "etr_ratio", "desc", FALSE), inflight)

\* C14: every partner-list request carries the active filters, key by key, with
\* sort_by and sort_order the list's sort, limit 30 and offset (page - 1) * 30 for the
\* list's page.
C14_RequestParameters ==
  [][\A req \in BagToSet(Issued) :
       Carries(req, activeFilters', sortField', sortDirection', currentPage')]_vars

\* The values of a filter set are never empty.
NoEmptyValue(f) == \A k \in DOMAIN f : f[k] # ""

\* C15: no filter set holds a key with an empty value: not the filter panel's copy, not
\* the active filters, not a request's filters, not a snapshot's; setting a key to the
\* empty value removes the key.
C15_NoEmptyFilterValues ==
  /\ [](/\ NoEmptyValue(localFilters) /\ NoEmptyValue(activeFilters)
        /\ \A req \in BagToSet(inflight) : NoEmptyValue(req.filters)
        /\ (HasSnapshot(location.state) => NoEmptyValue(location.state.savedFilters))
        /\ (HasSnapshot(histState) => NoEmptyValue(histState.savedFilters)))
  /\ [][\A key \in FilterKeys :
          FilterChange(key, "") =>
            key \notin DOMAIN localFilters' /\ key \notin DOMAIN activeFilters']_vars

\* The country filter has been removed by its tag while the filtered list is still
\* displayed: no filter is active and the unfiltered fetch is in flight.
C15_Witness ==
  /\ partners # NoPartners
  /\ partners.filters = [country |-> "Brazil"]
  /\ activeFilters = EmptyFilters /\ localFilters = EmptyFilters
  /\ BagIn(Request(EmptyFilters, 1, sortField, sortDirection, FALSE), inflight)

\* The prefix the rule gives: "--" for a negative revenue, "-" for earnings above a
\* revenue that is not negative, none otherwise.
RulePrefix(earnings, revenue) ==
  IF revenue < 0 THEN "--" ELSE IF earnings > revenue THEN "-" ELSE ""

\* C19: the ratio percentage of every ratio function is exactly "0.0%" for a second
\* argument of 0 and has otherwise the prefix given by the sign of the second argument
\* and by whether the earnings exceed it: "--", "-" or none.
C19_PrefixRule ==
  ratioCall.fn # "none" =>
    ratioCall.result =
      IF ratioCall.revenue = 0 THEN "0.0%"
      ELSE RulePrefix(ratioCall.earnings, ratioCall.revenue)
             \o formattedRatio(ratioCall.earnings, ratioCall.revenue) \o "%"

TableCalled(earnings, revenue) ==
  /\ ratioCall.fn = "PartnerTable.calculateRatioPercentage"
  /\ ratioCall.earnings = earnings /\ ratioCall.revenue = revenue

\* C20 as stated: the table's ratio percentage for earnings 12000 and revenue 10000 is
\* "-20.0%", and for earnings 5000 and revenue -2000 it is "--250.0%".
C20_ExamplesAsStated ==
  /\ TableCalled(12000, 10000) => ratioCall.result = "-20.0%"
  /\ TableCalled(5000, 0 - 2000) => ratioCall.result = "--250.0%"

\* C20, amended: the table's ratio percentage for earnings 12000 and revenue 10000 is
\* "-120.0%" (the ratio is earnings / revenue * 100, not the excess over the revenue),
\* and for earnings 5000 and revenue -2000 it is "--250.0%".
C20_ExamplesAsComputed ==
  /\ TableCalled(12000, 10000) => ratioCall.result = "-120.0%"
  /\ TableCalled(5000, 0 - 2000) => ratioCall.result = "--250.0%"

\* The table has rendered the ratio of earnings 12000 to revenue 10000.
C20_Witness == TableCalled(12000, 10000) /\ ratioCall.result # ""

\* C17: a detail request answered without a partner, or rejected as not found, ends in
\* the not-found state, never in the generic error state.
C17_NotFoundState ==
  detail.response \in {"empty", "notFound"} => detail.view = "notFound"

\* C18: a failed detail request ends in an error state that offers a retry of the
\* request and the way back to the list.
C18_RetryCapableError ==
  detail.response = "failure" =>
    /\ detail.view = "error"
    /\ {"retry", "back"} \subseteq DetailButtons(detail.view)

\* C16: a filter edit writes a new filter object and leaves every existing one as it
\* is, so the filters of a snapshot are the captured ones whatever is edited later.
C16_EditLeavesSnapshot ==
  /\ [](filterRefs.savedFilters # 0 =>
          filterObjects[filterRefs.savedFilters] = filterRefs.captured)
  /\ [][\A ref \in 1..Len(filterObjects) : filterObjects'[ref] = filterObjects[ref]]_vars

\* Back on the list with the snapshot still held by the location, the filters have been
\* edited: the active filters are another object with another value than the snapshot's.
C16_Witness ==
  /\ filterRefs.path = "list" /\ filterRefs.savedFilters # 0
  /\ filterRefs.captured = [country |-> "Brazil"]
  /\ filterRefs.activeFilters # filterRefs.savedFilters
  /\ filterObjects[filterRefs.activeFilters] = [country |-> "Brazil", tier |-> "Gold"]

\* C25: the partner-list loading flag is true exactly while at least one partner-list
\* fetch is in flight.
C25_LoadingWhileInFlight == loading <=> InFlight > 0

\* C26: while the filter panel is mounted, its local filters equal the active filters,
\* also after a snapshot restore has replaced the active filters.
C26_LocalFiltersFollowActive == DashboardMounted => localFilters = activeFilters

BucketOf(ratio) ==
  IF Below(ratio, 10) THEN "etr-critically-low"
  ELSE IF Below(ratio, 20) THEN "etr-very-low"
  ELSE IF Below(ratio, 30) THEN "etr-low"
  ELSE IF ~(ratio[1] > 40 * ratio[2]) THEN "etr-fair"
  ELSE "etr-high"

\* C21: for a revenue other than 0, the colour class is the double-loss class when the
\* revenue is negative, the unprofitable class when the earnings exceed the revenue,
\* and otherwise the bucket of the unsigned ratio |earnings / revenue| in percent.
C21_ColorClassRule ==
  (ratioCall.fn # "none" /\ ratioCall.revenue # 0) =>
    ratioCall.result =
      IF ratioCall.revenue < 0 THEN "etr-double-loss"
      ELSE IF ratioCall.earnings > ratioCall.revenue THEN "etr-unprofitable"
      ELSE BucketOf(Percent(Abs(ratioCall.earnings), ratioCall.revenue))

\* The percentages of a call, which have one denominator, summed: the numerator.
ShareSum == SumOver([tier \in ShareTiers |-> shareCall.percentages[tier][1]], ShareTiers)
ShareDenominator == shareCall.percentages["gold"][2]

\* C22: the tier share percentages of totals that are not all zero sum to 100 within
\* 0.1; of totals that are all zero, every percentage is 0.
C22_SharesSumTo100 ==
  shareCall.called =>
    IF \A tier \in ShareTiers : shareCall.data[tier] = 0
    THEN \A tier \in ShareTiers : shareCall.percentages[tier][1] = 0
    ELSE /\ 10 * (ShareSum - 100 * ShareDenominator) <= ShareDenominator
         /\ 10 * (100 * ShareDenominator - ShareSum) <= ShareDenominator

C29_PendingActionRunsOnce ==
  /\ [](\A r \in 1..MaxRequests :
          /\ piiLog.runs[r] <= 1
          /\ piiLog.fate[r] \in {"cancelled", "replaced"} => piiLog.runs[r] = 0)
  /\ [][\A r \in 1..MaxRequests :
          piiLog'.runs[r] # piiLog.runs[r] =>
            /\ PasswordSubmit(TRUE)
            /\ pii.pendingAction = r /\ piiLog.fate[r] \in {"pending", "refused"}
            /\ piiLog'.runs[r] = piiLog.runs[r] + 1]_vars

\* A first request was cancelled after a wrong password, PII was then unlocked from the
\* header with the correct password, hidden again, and a second request ran: the first
\* one never did.
C29_Witness ==
  /\ piiLog.fate[1] = "cancelled" /\ piiLog.runs[1] = 0
  /\ piiLog.fate[2] = "replaced" /\ piiLog.runs[2] = 0
  /\ piiLog.runs[3] = 1
  /\ pii.showPII /\ pii.path = "detail"

\* C28: when no tier-progression request is in flight and progression data is shown
\* for a selected country, the data and the recorded selection are those of that
\* country and the applied from and to tiers.
C28_ShownDataIsOfSelection ==
  (/\ progressionInflight = EmptyBag
   /\ enablement.selectedCountry # ""
   /\ enablement.error = None /\ enablement.tierProgressionData # NoProgression) =>
    LET wanted == Selection(enablement.selectedCountry, enablement.appliedFromTier,
                            enablement.appliedToTier)
    IN /\ enablement.tierProgressionData = <<wanted>>
       /\ enablement.currentDataSelection = <<wanted>>

C30_BreakdownMatchesFilteredScore ==
  (/\ globalEnablement.showCountryModal
   /\ <<globalEnablement.appliedFromTier, globalEnablement.appliedToTier>> #
        <<"All Tiers", "All Tiers">>
   /\ globalEnablement.globalProgressionError = None
   /\ getCurrentGlobalData(globalEnablement) # NoProgression
   /\ overviewRequests = EmptyBag) =>
    LET monthData == getCurrentGlobalData(globalEnablement)[1].monthly_progression[1]
        shown == globalEnablement.selectedCountryData[1]
    IN SumField(shown.countries, "score") =
         IF shown.movementType = "positive" THEN monthData.positive_score
         ELSE monthData.negative_score

====
